---- MODULE Spec2Model ----
(***************************************************************************)
(* GreenFlow AI: the streaming enrichment pipeline (app/pipeline), the     *)
(* live tail of its output log (app/api/stream.py), the alert evaluator    *)
(* (app/services/alerts.py), the event ingestion request with its unit of  *)
(* work and the listing of events (app/api/events.py,                      *)
(* database/session.py), the settings (app/config.py), the startup of the  *)
(* application (app/main.py), the risk endpoint (app/api/risk.py) and the  *)
(* question answering engine (app/rag/engine.py, services/chatbot.py).     *)
(*                                                                         *)
(* Numbers.  co2_ppm is modelled in whole ppm.  risk_score and             *)
(* carbon_score are floats in the code; here they are integers in          *)
(* thousandths, which is exact for risk_score on whole ppm         *)
(* (co2 / 500 = 2 * co2 thousandths).                                      *)
(***************************************************************************)
EXTENDS Integers, Sequences, FiniteSets, TLC

\* ------------------------------------------------------------------ bounds
\* Number of directory scans the pipeline loop is followed through.
MaxScans == 2
\* Number of changes other processes make to the input directory (a batch
\* file dropped, a batch file deleted).
MaxDrops == 2
\* Number of ingestion requests that are followed.
MaxRequests == 2
\* The same three bounds for the whole system (pipeline, live tail and
\* request handlers side by side).
SysScans == 1
SysDrops == 2
SysRequests == 1
\* Number of scans, and of batch files dropped, where the live tail is
\* followed through every step of its loop next to the pipeline.
TailScans == 1
TailDrops == 1
\* The largest co2_ppm the feature extractor is applied to on its own.
MaxCo2 == 600
\* Number of ingestion requests followed on a store that already holds a
\* page of readings.
MaxPosts == 2
\* Number of scans, and of batch files placed, where the progress of the
\* pipeline loop is followed.
ProgressScans == 2
ProgressDrops == 2

\* ------------------------------------------------------- program constants
CO2_WARNING_THRESHOLD == 350
CO2_DANGER_THRESHOLD == 400
CO2_CRITICAL_THRESHOLD == 500
RISK_SCORE_MAX == 1
\* The divisor of compute_risk_score and the cut-in of "critical".
RiskDivisor == 500
CriticalCutIn == 500
\* compute_carbon_score: baseline;  is_anomaly: baseline_ppm, std_dev, z limit.
CarbonBaseline == 350
AnomalyBaseline == 350
AnomalyStdDev == 30
AnomalyZ == 2
\* AlertService.evaluate: risk_score >= 0.9, in thousandths.
CriticalRisk == 900
\* Fixed-point scale of risk_score and carbon_score: x in thousandths.
Thousandths(x) == x * 1000

Min(a, b) == IF a <= b THEN a ELSE b
Max(a, b) == IF a >= b THEN a ELSE b

\* ------------------------------------------------------------ configuration
VARIABLE
    settings    \* app.config.settings: the Settings instance in force

\* Settings() when no variable of the environment or of .env names a field:
\* every field has its default.
Settings ==
    [OPENAI_API_KEY |-> "",
     CO2_WARNING_THRESHOLD |-> CO2_WARNING_THRESHOLD,
     CO2_DANGER_THRESHOLD |-> CO2_DANGER_THRESHOLD,
     CO2_CRITICAL_THRESHOLD |-> CO2_CRITICAL_THRESHOLD,
     RISK_SCORE_MAX |-> RISK_SCORE_MAX]

\* Settings() under environment env: a field takes the value of the variable
\* of its name when there is one; a variable that names no field is ignored
\* (extra="ignore").  No validator relates one field to another.
Configure(env) ==
    [k \in DOMAIN Settings |-> IF k \in DOMAIN env THEN env[k] ELSE Settings[k]]

\* The environments the application is started in.
Environments ==
    << [APP_ENV |-> "development"],
       [OPENAI_API_KEY |-> "sk-test"],
       [CO2_CRITICAL_THRESHOLD |-> 450],
       [CO2_CRITICAL_THRESHOLD |-> 600],
       [CO2_WARNING_THRESHOLD |-> 450],
       [CO2_DANGER_THRESHOLD |-> 300],
       [CO2_WARNING_THRESHOLD |-> 300, CO2_DANGER_THRESHOLD |-> 380,
        CO2_CRITICAL_THRESHOLD |-> 450] >>

\* ------------------------------------------------------- feature extractor
\* compute_risk_score without its min(..., RISK_SCORE_MAX).
compute_risk_score_uncapped(co2) == Thousandths(co2) \div RiskDivisor

\* compute_risk_score dividing by the danger threshold.
compute_risk_score_steep(co2) ==
    Min(Thousandths(co2) \div settings.CO2_DANGER_THRESHOLD,
        Thousandths(settings.RISK_SCORE_MAX))

compute_risk_score(co2) ==
    Min(Thousandths(co2) \div RiskDivisor, Thousandths(settings.RISK_SCORE_MAX))

compute_carbon_score(co2) ==
    Max(Thousandths(co2 - CarbonBaseline) \div CarbonBaseline, 0)

\* classify_severity with <= in place of <.
classify_severity_closed(co2) ==
    IF co2 <= settings.CO2_WARNING_THRESHOLD THEN "safe"
    ELSE IF co2 <= settings.CO2_DANGER_THRESHOLD THEN "warning"
    ELSE IF co2 <= CriticalCutIn THEN "danger"
    ELSE "critical"

classify_severity(co2) ==
    IF co2 < settings.CO2_WARNING_THRESHOLD THEN "safe"
    ELSE IF co2 < settings.CO2_DANGER_THRESHOLD THEN "warning"
    ELSE IF co2 < CriticalCutIn THEN "danger"
    ELSE "critical"

\* z_score = (co2 - baseline) / std_dev > 2.0, without the division.
is_anomaly(co2) ==
    (co2 - AnomalyBaseline) > AnomalyZ * AnomalyStdDev

\* ------------------------------------------------------------ JSON values
\* A JSON scalar as the value of a key: a number or a string that float()
\* rejects; Missing stands for a key that is absent.
Num(n) == [type |-> "number", v |-> n]
BadStr == [type |-> "string", v |-> 0]
Missing == [type |-> "missing", v |-> 0]

\* float(x) of Python: the number itself, ValueError on a non-numeric
\* string, TypeError on None.
FloatOf(x) ==
    CASE x.type = "number" -> [ok |-> TRUE, v |-> x.v, exc |-> "none"]
      [] x.type = "string" -> [ok |-> FALSE, v |-> 0, exc |-> "ValueError"]
      [] OTHER -> [ok |-> FALSE, v |-> 0, exc |-> "TypeError"]

EnrichedKeys == {"risk_score", "carbon_score", "severity", "anomaly"}

\* enrich_event on a dict: {**raw, risk_score, carbon_score, severity, anomaly}
\* with co2 = float(raw.get("co2_ppm", 0.0)).
RawCo2(raw) == IF "co2_ppm" \in DOMAIN raw THEN raw["co2_ppm"] ELSE Num(0)

\* enrich_event adding its carbon_score to the one the record already has.
EnrichDictAccumulating(raw, co2) ==
    [k \in DOMAIN raw \cup EnrichedKeys |->
        CASE k = "risk_score" -> compute_risk_score(co2)
          [] k = "carbon_score" ->
                compute_carbon_score(co2)
                    + (IF "carbon_score" \in DOMAIN raw
                       THEN raw["carbon_score"] ELSE 0)
          [] k = "severity" -> classify_severity(co2)
          [] k = "anomaly" -> is_anomaly(co2)
          [] OTHER -> raw[k]]

EnrichDict(raw, co2) ==
    [k \in DOMAIN raw \cup EnrichedKeys |->
        CASE k = "risk_score" -> compute_risk_score(co2)
          [] k = "carbon_score" -> compute_carbon_score(co2)
          [] k = "severity" -> classify_severity(co2)
          [] k = "anomaly" -> is_anomaly(co2)
          [] OTHER -> raw[k]]

\* enrich_event on any value json.loads can return: a non-dict has no .get
\* (AttributeError); float() may raise.  Result: [ok, rec, exc].
enrich_event(val) ==
    IF val.type # "object"
    THEN [ok |-> FALSE, rec |-> <<>>, exc |-> "AttributeError"]
    ELSE LET f == FloatOf(RawCo2(val.obj))
         IN IF f.ok
            THEN [ok |-> TRUE, rec |-> EnrichDict(val.obj, f.v), exc |-> "none"]
            ELSE [ok |-> FALSE, rec |-> <<>>, exc |-> f.exc]

\* ------------------------------------------------------------ batch files
\* The names a producer may give a batch file (all match *.json).
Files == {"a.json", "b.json"}
NoFile == ""

Obj(co2) == [kind |-> "object", co2 |-> co2]
Garbage == [kind |-> "garbage", co2 |-> Missing]
Blank == [kind |-> "blank", co2 |-> Missing]
Array == [kind |-> "array", co2 |-> Missing]

\* The batch files producers drop: each a sequence of lines.  A line is blank,
\* text that is not JSON, a JSON array, or a JSON object whose co2_ppm is a
\* number, a non-numeric string, or absent.
Catalog ==
    << <<Garbage, Blank>>,
       <<Obj(Num(420)), Garbage, Obj(Num(550))>>,
       <<Obj(Num(200)), Blank, Obj(Num(450))>>,
       <<Obj(Num(420)), Array, Obj(Num(550))>>,
       <<Obj(Num(420)), Obj(BadStr)>>,
       <<Obj(Num(-5)), Obj(Missing)>> >>

Shapes == 1..Len(Catalog)

\* The text of file f when it holds shape s: line k carries the file name as
\* source and its line number as timestamp.
FileLines(f, s) ==
    [k \in 1..Len(Catalog[s]) |->
        [kind |-> Catalog[s][k].kind, co2 |-> Catalog[s][k].co2,
         source |-> f, timestamp |-> k]]

\* json.loads of one stripped line of a batch file.
JsonLoads(line) ==
    CASE line.kind = "garbage" ->
            [ok |-> FALSE, val |-> [type |-> "none"]]
      [] line.kind = "array" ->
            [ok |-> TRUE, val |-> [type |-> "array"]]
      [] OTHER ->
            [ok |-> TRUE,
             val |-> [type |-> "object",
                      obj |-> IF line.co2.type = "missing"
                              THEN [source |-> line.source,
                                    timestamp |-> line.timestamp]
                              ELSE [source |-> line.source,
                                    timestamp |-> line.timestamp,
                                    co2_ppm |-> line.co2]]]

\* The messages the pipeline thread logs.
LogNone == "none"
LogStarted == "Streaming pipeline started"
LogProcessing == "Processing pipeline file"
LogSkipping == "Skipping malformed line"
LogNotFound == "Pipeline input file not found"
LogWrote == "Wrote enriched events"
LogNotRemoved == "Could not remove processed file"

\* The for-loop of process_file from line i on, acc the list so far and msg
\* the last message logged: a blank line is skipped silently, a
\* JSONDecodeError is skipped with a warning, any other exception leaves the
\* loop.  Result: [ok, recs, exc, msg].
RECURSIVE ProcessLines(_, _, _, _)
ProcessLines(lines, i, acc, msg) ==
    IF i > Len(lines)
    THEN [ok |-> TRUE, recs |-> acc, exc |-> "none", msg |-> msg]
    ELSE IF lines[i].kind = "blank" THEN ProcessLines(lines, i + 1, acc, msg)
    ELSE LET j == JsonLoads(lines[i])
         IN IF ~j.ok THEN ProcessLines(lines, i + 1, acc, LogSkipping)
            ELSE LET e == enrich_event(j.val)
                 IN IF e.ok
                    THEN ProcessLines(lines, i + 1, Append(acc, e.rec), msg)
                    ELSE [ok |-> FALSE, recs |-> <<>>, exc |-> e.exc,
                          msg |-> msg]

\* process_file without its except FileNotFoundError clause.
process_file_uncaught(f, s, openFails) ==
    IF s = 0 \/ openFails
    THEN [ok |-> FALSE, recs |-> <<>>, exc |-> "OSError", msg |-> LogNone]
    ELSE ProcessLines(FileLines(f, s), 1, <<>>, LogNone)

\* process_file on a path whose file holds shape s (0: no such file);
\* openFails: open() raises an OSError other than FileNotFoundError.
process_file(f, s, openFails) ==
    IF s = 0
    THEN [ok |-> TRUE, recs |-> <<>>, exc |-> "none", msg |-> LogNotFound]
    ELSE IF openFails
    THEN [ok |-> FALSE, recs |-> <<>>, exc |-> "OSError", msg |-> LogNone]
    ELSE ProcessLines(FileLines(f, s), 1, <<>>, LogNone)

\* ------------------------------------------------------------- output log
\* json.dumps(event) + "\n": one complete line of the log.
JsonDumps(rec) == [complete |-> TRUE, rec |-> rec]

\* fh.write after the file was opened in mode "w".
OverwriteLine(lg, line) == <<line>>

\* A write that lands before the lines already in the file.
PrependLine(lg, line) == <<line>> \o lg

\* fh.write on a handle opened in mode "a".
AppendLine(lg, line) == Append(lg, line)

\* The part of a line that has reached the file when the buffer of fh is
\* flushed in the middle of it.
Truncate(line) == [line EXCEPT !.complete = FALSE]

\* json.loads that takes the text of a truncated line for a record.
LogLoadsLenient(line) == [ok |-> TRUE, val |-> line.rec]

\* json.loads of one line of the log: a truncated line does not parse.
LogLoads(line) == [ok |-> line.complete, val |-> line.rec]

\* stream_enriched_events(tail): the parseable lines of the log, last `tail`.
RECURSIVE ParsedLines(_)
ParsedLines(lg) ==
    IF lg = <<>> THEN <<>>
    ELSE LET j == LogLoads(lg[Len(lg)])
             front == ParsedLines(SubSeq(lg, 1, Len(lg) - 1))
         IN IF j.ok THEN Append(front, j.val) ELSE front

LastN(s, n) == SubSeq(s, Max(1, Len(s) - n + 1), Len(s))

\* stream_enriched_events returning events[:tail].
stream_enriched_events_head(lg, tail) ==
    SubSeq(ParsedLines(lg), 1, Min(tail, Len(ParsedLines(lg))))

stream_enriched_events(lg, tail) == LastN(ParsedLines(lg), tail)

\* How the process finds the output log: readable; not openable (open raises
\* an OSError); in a directory it may not search (Path.exists raises
\* PermissionError: stat fails with EACCES, which pathlib does not ignore).
LogAccess == {"ok", "unopenable", "unsearchable"}

\* await stream_enriched_events(tail) on a file holding text, as its caller
\* sees it: [ok, events, exc].
StreamRead(text, access, tail) ==
    CASE access = "unsearchable" ->
            [ok |-> FALSE, events |-> <<>>, exc |-> "PermissionError"]
      [] access = "unopenable" ->
            [ok |-> TRUE, events |-> <<>>, exc |-> "none"]
      [] OTHER ->
            [ok |-> TRUE, events |-> stream_enriched_events(text, tail),
             exc |-> "none"]

\* json.dumps({'error': str(exc)}).
ErrorMessage(e) == [error |-> e]

\* random.uniform(310, 520) rounded: the whole-ppm samples followed.
DemoCo2 == {310, 420, 520}

\* The synthetic reading of _live_event_generator, enriched.
Synthetic(co2) ==
    EnrichDict([source |-> "live-sensor", co2_ppm |-> Num(co2), timestamp |-> 0],
               co2)

IsPrefix(s, t) == Len(s) <= Len(t) /\ SubSeq(t, 1, Len(s)) = s

\* --------------------------------------------------------- alert service
\* The HIGH_CO2 alert carrying the label of classify_severity as it is.
HighCo2AlertUnmapped(event, severity) ==
    [event_id |-> event.id, alert_type |-> "HIGH_CO2", severity |-> severity,
     resolved |-> FALSE]

HighCo2Alert(event, severity) ==
    [event_id |-> event.id, alert_type |-> "HIGH_CO2",
     severity |-> IF severity = "critical" THEN "critical" ELSE "warning",
     resolved |-> FALSE]

CriticalRiskAlert(event) ==
    [event_id |-> event.id, alert_type |-> "CRITICAL_RISK",
     severity |-> "critical", resolved |-> FALSE]

\* evaluate with its second `if` written as `elif`.
evaluate_elif(event) ==
    LET severity == classify_severity(event.co2_ppm)
    IN IF severity \in {"danger", "critical"}
       THEN <<HighCo2Alert(event, severity)>>
       ELSE IF event.risk_score >= CriticalRisk
       THEN <<CriticalRiskAlert(event)>>
       ELSE <<>>

\* AlertService.evaluate: the list `created`.
evaluate(event) ==
    LET severity == classify_severity(event.co2_ppm)
        high == IF severity \in {"danger", "critical"}
                THEN <<HighCo2Alert(event, severity)>> ELSE <<>>
        risk == IF event.risk_score >= CriticalRisk
                THEN <<CriticalRiskAlert(event)>> ELSE <<>>
    IN high \o risk

\* ----------------------------------------------------------- event store
\* The co2_ppm values of submitted readings that are followed.
ApiCo2 == {-5, 200, 399, 400, 449, 450, 550}

\* The timestamps submitted readings carry (0: falsy, see TimestampOf).
ApiTimestamps == {0, 1}

\* EventCreate: Field(..., ge=0) and co2_must_be_positive.
EventCreate(co2) ==
    IF co2 >= 0 THEN [ok |-> TRUE, status |-> 0]
    ELSE [ok |-> FALSE, status |-> 422]

\* time.time() while the requests followed are served.
Now == 5

\* payload.timestamp or time.time().
TimestampOf(ts) == IF ts # 0 THEN ts ELSE Now

\* Event(...) of create_event, before flush gives it an id.
NewEvent(co2, ts) ==
    [id |-> 0, source |-> "s1", timestamp |-> TimestampOf(ts), co2_ppm |-> co2,
     risk_score |-> compute_risk_score(co2),
     carbon_score |-> compute_carbon_score(co2)]

NoEvent == [id |-> 0, source |-> "", timestamp |-> 0, co2_ppm |-> 0,
            risk_score |-> 0, carbon_score |-> 0]

\* The last response to a POST /events: status and body.
NoResponse == [status |-> 0, body |-> NoEvent]

\* list_events: limit = Query(50, ...), offset = Query(0, ...).
DefaultLimit == 50
DefaultOffset == 0

\* ORDER BY timestamp DESC: row r comes before row q.  SQL leaves the order
\* of equal timestamps open; the newer id is taken first.
ComesBefore(r, q) ==
    \/ r.timestamp > q.timestamp
    \/ r.timestamp = q.timestamp /\ r.id > q.id

\* The rows in the order of the query.
RECURSIVE InsertRow(_, _)
InsertRow(r, sorted) ==
    IF sorted = <<>> THEN <<r>>
    ELSE IF ComesBefore(r, Head(sorted)) THEN <<r>> \o sorted
    ELSE <<Head(sorted)>> \o InsertRow(r, Tail(sorted))

RECURSIVE Ordered(_)
Ordered(rows) ==
    IF rows = <<>> THEN <<>>
    ELSE InsertRow(rows[Len(rows)], Ordered(SubSeq(rows, 1, Len(rows) - 1)))

\* list_events(db, limit, offset) on the committed rows:
\* select(Event).order_by(Event.timestamp.desc()).limit(limit).offset(offset).
list_events(rows, limit, offset) ==
    SubSeq(Ordered(rows), offset + 1, Min(offset + limit, Len(rows)))

\* The last response to a GET /events since the last POST was answered.
NoList == [got |-> FALSE, rows |-> <<>>]

IdleRequest == [pc |-> "idle", event |-> NoEvent, alerts |-> <<>>]

\* INTEGER PRIMARY KEY: one more than the largest id in the table.
RECURSIVE MaxId(_)
MaxId(rows) ==
    IF rows = <<>> THEN 0 ELSE Max(Head(rows).id, MaxId(Tail(rows)))

\* ----------------------------------------------------------- risk endpoint
\* random.uniform(310.0, 480.0) rounded: the whole-ppm samples followed.
DemoRisk == {310, 395, 480}

\* The rows select(Event).order_by(Event.timestamp.desc()).limit(1) may
\* return: SQL leaves the choice among equal timestamps open.
LatestRows(rows) ==
    {rows[i] : i \in {i \in 1..Len(rows) :
                        \A j \in 1..Len(rows) :
                           rows[j].timestamp <= rows[i].timestamp}}

\* get_risk with the risk score left uncapped.
get_risk_uncapped(co2) ==
    LET risk_score == compute_risk_score_uncapped(co2)
    IN IF risk_score >= 0 /\ risk_score <= Thousandths(1)
       THEN [status |-> 200, risk_score |-> risk_score,
             risk_level |-> classify_severity(co2), co2_ppm |-> co2,
             threshold |-> settings.CO2_DANGER_THRESHOLD]
       ELSE [status |-> 500, risk_score |-> 0, risk_level |-> "",
             co2_ppm |-> 0, threshold |-> 0]

\* get_risk from the reading co2 on: the scores of the extractor, and
\* RiskResponse(...), whose risk_score is Field(ge=0.0, le=1.0); a
\* ValidationError is answered with 500.
get_risk(co2) ==
    LET risk_score == compute_risk_score(co2)
    IN IF risk_score >= 0 /\ risk_score <= Thousandths(1)
       THEN [status |-> 200, risk_score |-> risk_score,
             risk_level |-> classify_severity(co2), co2_ppm |-> co2,
             threshold |-> settings.CO2_DANGER_THRESHOLD]
       ELSE [status |-> 500, risk_score |-> 0, risk_level |-> "",
             co2_ppm |-> 0, threshold |-> 0]

\* No GET /risk was answered yet.
NoAssessment == [status |-> 0, risk_score |-> 0, risk_level |-> "",
                 co2_ppm |-> 0, threshold |-> 0]

\* --------------------------------------------------------------- RAG engine
\* RAGEngine(): no client, not initialized (a field is TRUE when it is not
\* None).
RAGEngine ==
    [_collection |-> FALSE, _openai_client |-> FALSE, _initialized |-> FALSE]

\* _init_clients: chroma and openai tell whether the construction of the
\* client succeeds; an exception is logged and leaves the field as it is.
_init_clients(e, chroma, openai) ==
    IF e._initialized THEN e
    ELSE [_collection |-> e._collection \/ chroma,
          _openai_client |-> e._openai_client \/ openai,
          _initialized |-> TRUE]

\* The ids of the documents seed_knowledge_base indexes.
Knowledge ==
    <<"co2-basics", "risk-scoring", "climate-impact", "green-actions",
      "greenflow-system">>

\* The vector index: no document, the rag-seed thread not started.
NoIndex == [count |-> 0, seed |-> "none"]

\* What the collection does on count()/query(): it returns results or raises.
IndexOutcomes == {"results", "error"}

\* What chat.completions.create does: it returns a message with content,
\* returns one without content, or raises.
LlmOutcomes == {"content", "empty", "error"}

\* The answers of query: its preset text, the text of its except clause, and
\* the content of a completion.
Unavailable ==
    "AI service is currently unavailable. Please check your OPENAI_API_KEY."
QueryFailed == "AI query failed: Connection error."
Completion == "Open the windows."

\* query, retrieve: source_ids.
Retrieve(e, count, io) ==
    IF e._collection /\ io = "results"
    THEN SubSeq(Knowledge, 1, Min(3, count))
    ELSE <<>>

\* query, generate: answer.
Generate(e, key, lo) ==
    IF e._openai_client /\ key # ""
    THEN CASE lo = "content" -> Completion
           [] lo = "empty" -> Unavailable
           [] OTHER -> QueryFailed
    ELSE Unavailable

\* query with neither call to a collaborator inside a try statement.
query_uncaught(e, key, count, io, lo) ==
    IF e._collection /\ io = "error"
    THEN [exc |-> "ChromaError", result |-> <<>>]
    ELSE IF e._openai_client /\ key # "" /\ lo = "error"
    THEN [exc |-> "APIConnectionError", result |-> <<>>]
    ELSE [exc |-> "none",
          result |-> [answer |-> Generate(e, key, lo),
                      sources |-> Retrieve(e, count, io),
                      latency_ms |-> 0]]

\* RAGEngine.query after _init_clients, on an engine e, with
\* settings.OPENAI_API_KEY key and a collection of count documents:
\* [exc, result].
query(e, key, count, io, lo) ==
    [exc |-> "none",
     result |-> [answer |-> Generate(e, key, lo),
                 sources |-> Retrieve(e, count, io),
                 latency_ms |-> 0]]

\* What the collaborators did during a query.
Asked(e, key, io, lo) ==
    [index |-> IF e._collection THEN io ELSE "unavailable",
     llm |-> IF ~e._openai_client THEN "unavailable"
             ELSE IF key = "" THEN "no key" ELSE lo]

\* No query was made yet.
NoAnswer == [asked |-> [index |-> "", llm |-> ""], exc |-> "none",
             result |-> <<>>]

\* ------------------------------------------------------------------ state
VARIABLES
    dir,        \* input directory: file name -> shape held (0: absent)
    drops,      \* changes made to the input directory by other processes
    log,        \* output log: the lines of enriched.jsonl
    logPass,    \* history: for each line of log, the pass that wrote it
    pc,         \* run_pipeline: start, scan, process, write, remove, sleep, dead
    exc,        \* the exception that ended run_pipeline ("none" while alive)
    pending,    \* files of the current scan not yet handled
    cur,        \* json_file
    enriched,   \* enriched
    wi,         \* write_output: records of enriched written
    scans,      \* scans started
    pass,       \* history: number of process_file calls made
    lastLog,    \* the last message the pipeline thread logged
    partial,    \* the start of line wi + 1 of enriched is in the file
    emitted,    \* live tail: the messages yielded in the last cycle
    tpc,        \* _live_event_generator: run, sleep, closed
    connected,  \* the consumer of the subscription is still there
    access,     \* how the process finds the output log (LogAccess)
    events,     \* committed rows of table events
    alerts,     \* committed rows of table system_alerts
    req,        \* the ingestion request in flight: its position and session
    nreq,       \* ingestion requests started
    posted,     \* the last response to POST /events
    listed,     \* the response to GET /events made since
    raw,        \* enrich_event on its own: the value it is called with
    out,        \* enrich_event on its own: the results of successive calls
    app,        \* lifespan: starting, tables, serving, failed
    loops,      \* threads started with target run_pipeline
    engine,     \* rag_engine: _collection, _openai_client, _initialized
    index,      \* documents in the collection of the vector index
    answered,   \* the outcome of the last RAGEngine.query
    assessed    \* the last response to GET /risk

fsVars == <<dir, drops>>
logVars == <<log, logPass, partial>>
pipeVars == <<pc, exc, pending, cur, enriched, wi, scans, pass, lastLog>>
tailVars == <<emitted, tpc, connected, access>>
storeVars == <<events, alerts, req, nreq, posted, listed>>
callVars == <<raw, out>>
appVars == <<settings, app, loops, engine, index, answered, assessed>>
fileSide == <<fsVars, logVars, pipeVars, tailVars>>
vars == <<dir, drops, log, logPass, partial, pc, exc, pending, cur, enriched,
          wi, scans, pass, lastLog, emitted, tpc, connected, access, events,
          alerts, req, nreq, posted, listed, raw, out, settings, app, loops,
          engine, index, answered, assessed>>

\* The files and the two loops, the pipeline thread at position at.
InitFilesAt(at) ==
    /\ dir = [f \in Files |-> 0]
    /\ drops = 0
    /\ log = <<>>
    /\ logPass = <<>>
    /\ partial = FALSE
    /\ pc = at
    /\ exc = "none"
    /\ pending = <<>>
    /\ cur = NoFile
    /\ enriched = <<>>
    /\ wi = 0
    /\ scans = 0
    /\ pass = 0
    /\ lastLog = LogNone
    /\ emitted = <<>>
    /\ tpc = "run"
    /\ connected = TRUE
    /\ access = "ok"

InitFiles == InitFilesAt("start")

\* The application configured by cfg when lifespan has reached its yield:
\* the tables exist, the rag-seed and the pipeline thread are started, no
\* request was served yet.
InitApp(cfg) ==
    /\ settings = cfg
    /\ app = "serving"
    /\ loops = 1
    /\ engine = RAGEngine
    /\ index = [NoIndex EXCEPT !.seed = "pending"]
    /\ answered = NoAnswer
    /\ assessed = NoAssessment

\* The store holding the committed rows and their alerts, no request in
\* flight.
InitStore(rows, as) ==
    /\ events = rows
    /\ alerts = as
    /\ req = IdleRequest
    /\ nreq = 0
    /\ posted = NoResponse
    /\ listed = NoList

\* enrich_event has not been called on its own.
NoValue == [type |-> "none"]

Init ==
    /\ InitApp(Settings)
    /\ InitFiles
    /\ InitStore(<<>>, <<>>)
    /\ raw = NoValue
    /\ out = <<>>

Present == {f \in Files : dir[f] # 0}

\* The lines a reader finds in the output log: the complete lines and, while
\* a write is under way, the part of the next line that was flushed.
FileText ==
    IF partial /\ wi < Len(enriched)
    THEN Append(log, Truncate(JsonDumps(enriched[wi + 1])))
    ELSE log

\* Enumeration orders of a directory listing.
Orders(S) ==
    {o \in [1..Cardinality(S) -> S] :
        \A i, j \in 1..Cardinality(S) : i # j => o[i] # o[j]}

\* ------------------------------------------------------------ environment
\* A producer places a complete batch file in the input directory.
Drop(f, s, limit) ==
    /\ dir[f] = 0
    /\ drops < limit
    /\ dir' = [dir EXCEPT ![f] = s]
    /\ drops' = drops + 1
    /\ UNCHANGED <<logVars, pipeVars, tailVars, storeVars, callVars, appVars>>

\* A producer places a complete batch file under the name of one that is
\* still in the input directory (os.replace of a finished temporary file).
Replace(f, s, limit) ==
    /\ dir[f] \notin {0, s}
    /\ drops < limit
    /\ dir' = [dir EXCEPT ![f] = s]
    /\ drops' = drops + 1
    /\ UNCHANGED <<logVars, pipeVars, tailVars, storeVars, callVars, appVars>>

\* Another process deletes a batch file.
EnvRemove(f, limit) ==
    /\ dir[f] # 0
    /\ drops < limit
    /\ dir' = [dir EXCEPT ![f] = 0]
    /\ drops' = drops + 1
    /\ UNCHANGED <<logVars, pipeVars, tailVars, storeVars, callVars, appVars>>

\* ---------------------------------------------------------- run_pipeline
\* The for statement takes the next file of the scan, or the loop sleeps.
Advance(rest) ==
    /\ enriched' = <<>>
    /\ wi' = 0
    /\ IF rest = <<>>
       THEN pc' = "sleep" /\ cur' = NoFile /\ pending' = <<>>
       ELSE pc' = "process" /\ cur' = Head(rest) /\ pending' = Tail(rest)

Die(e) ==
    /\ pc' = "dead"
    /\ exc' = e
    /\ UNCHANGED <<pending, cur, enriched, wi>>

\* _ensure_dirs(): mkdir of the input and output directories.
PipelineStart ==
    /\ pc = "start"
    /\ \/ /\ pc' = "scan"
          /\ lastLog' = LogStarted
          /\ UNCHANGED <<exc, pending, cur, enriched, wi>>
       \/ Die("setup") /\ UNCHANGED lastLog
    /\ UNCHANGED <<fsVars, logVars, scans, pass, tailVars, storeVars, callVars, appVars>>

\* input_dir.glob("*.json"): the listing is taken when the for loop starts.
PipelineScan(limit) ==
    /\ pc = "scan"
    /\ scans < limit
    /\ scans' = scans + 1
    /\ \E o \in Orders(Present) : Advance(o)
    /\ UNCHANGED <<fsVars, logVars, exc, pass, lastLog, tailVars, storeVars,
                   callVars, appVars>>

\* enriched = process_file(str(json_file)); if enriched: ...
PipelineProcess ==
    /\ pc = "process"
    /\ pass' = pass + 1
    /\ \E openFails \in BOOLEAN :
          LET r == process_file(cur, dir[cur], openFails)
          IN /\ lastLog' = IF r.msg # LogNone THEN r.msg ELSE LogProcessing
             /\ IF r.ok
                THEN /\ enriched' = r.recs
                     /\ wi' = 0
                     /\ pc' = IF r.recs # <<>> THEN "write" ELSE "remove"
                     /\ UNCHANGED <<exc, pending, cur>>
                ELSE Die(r.exc)
    /\ UNCHANGED <<fsVars, logVars, scans, tailVars, storeVars, callVars, appVars>>

\* write_output: the buffer of fh is flushed in the middle of a line.
PipelineFlush ==
    /\ pc = "write"
    /\ wi < Len(enriched)
    /\ ~partial
    /\ partial' = TRUE
    /\ UNCHANGED <<fsVars, log, logPass, pipeVars, tailVars, storeVars,
                   callVars, appVars>>

\* write_output: one fh.write reaching the file.
PipelineWrite ==
    /\ pc = "write"
    /\ wi < Len(enriched)
    /\ log' = AppendLine(log, JsonDumps(enriched[wi + 1]))
    /\ logPass' = Append(logPass, pass)
    /\ partial' = FALSE
    /\ wi' = wi + 1
    /\ pc' = IF wi + 1 = Len(enriched) THEN "remove" ELSE "write"
    /\ lastLog' = IF wi + 1 = Len(enriched) THEN LogWrote ELSE lastLog
    /\ UNCHANGED <<fsVars, exc, pending, cur, enriched, scans, pass,
                   tailVars, storeVars, callVars, appVars>>

\* write_output with its OSError swallowed by the caller.
PipelineWriteFailsIgnored ==
    /\ pc = "write"
    /\ pc' = "remove"
    /\ UNCHANGED <<fsVars, logVars, exc, pending, cur, enriched, wi, scans,
                   pass,
                   lastLog, tailVars, storeVars, callVars, appVars>>

\* write_output: open() or a write raises OSError; nothing catches it.
PipelineWriteFails ==
    /\ pc = "write"
    /\ Die("OSError")
    /\ UNCHANGED <<fsVars, logVars, scans, pass, lastLog, tailVars,
                   storeVars, callVars, appVars>>

\* os.remove(json_file) without the try/except around it.
PipelineRemoveUncaught ==
    /\ pc = "remove"
    /\ \E fails \in BOOLEAN :
          IF dir[cur] # 0 /\ ~fails
          THEN /\ dir' = [dir EXCEPT ![cur] = 0]
               /\ Advance(pending)
               /\ UNCHANGED <<exc, lastLog>>
          ELSE /\ dir' = dir
               /\ lastLog' = LogNotRemoved
               /\ Die("OSError")
    /\ UNCHANGED <<drops, logVars, scans, pass, tailVars, storeVars, callVars, appVars>>

\* os.remove(json_file) inside try/except OSError.
PipelineRemove ==
    /\ pc = "remove"
    /\ \E fails \in BOOLEAN :
          IF dir[cur] # 0 /\ ~fails
          THEN dir' = [dir EXCEPT ![cur] = 0] /\ UNCHANGED lastLog
          ELSE dir' = dir /\ lastLog' = LogNotRemoved
    /\ Advance(pending)
    /\ UNCHANGED <<drops, logVars, exc, scans, pass, tailVars, storeVars,
                   callVars, appVars>>

\* input_dir.glob("*.json") on an empty directory: the for loop has no
\* iteration.  Such a scan changes nothing and is not counted.
PipelineIdleScan ==
    /\ pc = "scan"
    /\ Present = {}
    /\ Advance(<<>>)
    /\ UNCHANGED <<fsVars, logVars, exc, scans, pass, lastLog, tailVars,
                   storeVars, callVars, appVars>>

\* time.sleep(2), then the next iteration of while True.
PipelineSleep ==
    /\ pc = "sleep"
    /\ pc' = "scan"
    /\ UNCHANGED <<fsVars, logVars, exc, pending, cur, enriched, wi, scans,
                   pass,
                   lastLog, tailVars, storeVars, callVars, appVars>>

\* ----------------------------------------------- create_event under get_db
\* get_db's except branch: session.rollback(), then the error is re-raised.
Rollback ==
    /\ req' = [req EXCEPT !.pc = "error"]
    /\ UNCHANGED <<events, alerts>>

\* POST /events with a body EventCreate rejects: 422, the handler is not
\* called and no session is opened.
ReqReject(co2, limit) ==
    /\ app = "serving"
    /\ req.pc = "idle"
    /\ nreq < limit
    /\ ~EventCreate(co2).ok
    /\ nreq' = nreq + 1
    /\ posted' = [status |-> EventCreate(co2).status, body |-> NoEvent]
    /\ listed' = NoList
    /\ UNCHANGED <<events, alerts, req, fileSide, callVars, appVars>>

\* create_event on a session that commits at every flush.
ReqBeginAutocommit(co2, ts, limit) ==
    /\ app = "serving"
    /\ req.pc = "idle"
    /\ nreq < limit
    /\ EventCreate(co2).ok
    /\ nreq' = nreq + 1
    /\ LET e == [NewEvent(co2, ts) EXCEPT !.id = MaxId(events) + 1]
       IN /\ req' = [pc |-> "flushed", event |-> e, alerts |-> <<>>]
          /\ events' = Append(events, e)
          /\ UNCHANGED alerts
    /\ UNCHANGED <<posted, listed, fileSide, callVars, appVars>>

\* POST /events: Event(...), db.add(event), await db.flush().
ReqBegin(co2, ts, limit) ==
    /\ app = "serving"
    /\ req.pc = "idle"
    /\ nreq < limit
    /\ EventCreate(co2).ok
    /\ nreq' = nreq + 1
    /\ \/ /\ req' = [pc |-> "flushed",
                     event |-> [NewEvent(co2, ts) EXCEPT !.id = MaxId(events) + 1],
                     alerts |-> <<>>]
          /\ UNCHANGED <<events, alerts>>
       \/ /\ req' = [pc |-> "error", event |-> NewEvent(co2, ts),
                     alerts |-> <<>>]
          /\ UNCHANGED <<events, alerts>>
    /\ UNCHANGED <<posted, listed, fileSide, callVars, appVars>>

\* await alert_service.evaluate(event, db): db.add(alert) for each alert,
\* db.flush() if any was created.
ReqEvaluate ==
    /\ req.pc = "flushed"
    /\ \/ /\ req' = [req EXCEPT !.pc = "evaluated", !.alerts = evaluate(req.event)]
          /\ UNCHANGED <<events, alerts>>
       \/ /\ evaluate(req.event) # <<>>
          /\ Rollback
    /\ UNCHANGED <<nreq, posted, listed, fileSide, callVars, appVars>>

\* await db.commit(): the session's rows become visible together.
ReqCommit ==
    /\ req.pc = "evaluated"
    /\ \/ /\ events' = Append(events, req.event)
          /\ alerts' = alerts \o req.alerts
          /\ req' = [req EXCEPT !.pc = "committed"]
       \/ Rollback
    /\ UNCHANGED <<nreq, posted, listed, fileSide, callVars, appVars>>

\* await db.refresh(event); EventResponse.model_validate(event); then
\* get_db's own commit after the yield.
ReqFinish ==
    /\ req.pc = "committed"
    /\ \/ req' = [req EXCEPT !.pc = "done"] /\ UNCHANGED <<events, alerts>>
       \/ Rollback
    /\ UNCHANGED <<nreq, posted, listed, fileSide, callVars, appVars>>

\* The response (201 with the EventResponse, or 500) is sent; the session is
\* closed.
ReqEnd ==
    /\ req.pc \in {"done", "error"}
    /\ posted' = IF req.pc = "done"
                 THEN [status |-> 201, body |-> req.event]
                 ELSE [status |-> 500, body |-> NoEvent]
    /\ listed' = NoList
    /\ req' = IdleRequest
    /\ UNCHANGED <<events, alerts, nreq, fileSide, callVars, appVars>>

\* GET /events with default parameters, on the committed rows.
ListEvents ==
    /\ app = "serving"
    /\ ~listed.got
    /\ listed' = [got |-> TRUE,
                  rows |-> list_events(events, DefaultLimit, DefaultOffset)]
    /\ UNCHANGED <<events, alerts, req, nreq, posted, fileSide, callVars, appVars>>

\* ------------------------------------------------- enrich_event on its own
\* A JSON object as json.loads returns it.
ObjectOf(rec) == [type |-> "object", obj |-> rec]

\* The values enrich_event is called with: a reading with a whole co2_ppm
\* from -5 to MaxCo2, with a co2_ppm float() rejects, without co2_ppm, and a
\* JSON array.
Readings ==
    {ObjectOf([source |-> "s1", timestamp |-> 1, co2_ppm |-> Num(n)]) :
        n \in -5..MaxCo2}
    \cup {ObjectOf([source |-> "s1", timestamp |-> 1, co2_ppm |-> BadStr]),
          ObjectOf([source |-> "s1", timestamp |-> 1])}

\* enrich_event(raw).
CallEnrich ==
    /\ out = <<>>
    /\ out' = <<enrich_event(raw)>>
    /\ UNCHANGED <<raw, fileSide, storeVars, appVars>>

\* enrich_event on the record the last call returned.
CallEnrichAgain ==
    /\ Len(out) = 1
    /\ out[1].ok
    /\ out' = Append(out, enrich_event(ObjectOf(out[1].rec)))
    /\ UNCHANGED <<raw, fileSide, storeVars, appVars>>

\* ---------------------------------------------------------------- live tail
\* Another process changes the permissions of the output log or of its
\* directory.
EnvAccess(a) ==
    /\ a # access
    /\ access' = a
    /\ UNCHANGED <<fsVars, logVars, pipeVars, emitted, tpc, connected,
                   storeVars, callVars, appVars>>

\* One cycle of _live_event_generator with its try block left without the
\* except clause: the exception ends the generator.
TailCycleUncaught ==
    /\ app = "serving"
    /\ tpc = "run"
    /\ LET r == StreamRead(FileText, access, 1)
       IN IF ~r.ok
          THEN emitted' = <<>> /\ tpc' = "closed"
          ELSE /\ tpc' = "sleep"
               /\ IF r.events # <<>>
                  THEN emitted' = <<r.events[Len(r.events)]>>
                  ELSE \E co2 \in DemoCo2 : emitted' = <<Synthetic(co2)>>
    /\ UNCHANGED <<fsVars, logVars, pipeVars, connected, access, storeVars,
                   callVars, appVars>>

\* One cycle of _live_event_generator up to its yield: the last record of
\* the log, or a synthetic reading when stream_enriched_events returns
\* nothing, or the error message when it raises.
TailCycle ==
    /\ app = "serving"
    /\ tpc = "run"
    /\ LET r == StreamRead(FileText, access, 1)
       IN IF ~r.ok
          THEN emitted' = <<ErrorMessage(r.exc)>>
          ELSE IF r.events # <<>>
          THEN emitted' = <<r.events[Len(r.events)]>>
          ELSE \E co2 \in DemoCo2 : emitted' = <<Synthetic(co2)>>
    /\ tpc' = "sleep"
    /\ UNCHANGED <<fsVars, logVars, pipeVars, connected, access, storeVars,
                   callVars, appVars>>

\* await asyncio.sleep(2), then the next iteration of while True.
TailSleep ==
    /\ tpc = "sleep"
    /\ tpc' = "run"
    /\ UNCHANGED <<fsVars, logVars, pipeVars, emitted, connected, access,
                   storeVars, callVars, appVars>>

\* The consumer disconnects: the transport closes the generator
\* (GeneratorExit or CancelledError, which except Exception does not catch).
TailDisconnect ==
    /\ tpc # "closed"
    /\ tpc' = "closed"
    /\ connected' = FALSE
    /\ UNCHANGED <<fsVars, logVars, pipeVars, emitted, access, storeVars,
                   callVars, appVars>>

\* ------------------------------------------------------------------ lifespan
\* lifespan up to the return of init_db(): create_all creates the tables, or
\* raises; the exception leaves lifespan and the server does not start.
LifespanInitDb ==
    /\ app = "starting"
    /\ \/ app' = "tables"
       \/ app' = "failed"
    /\ UNCHANGED <<fileSide, storeVars, callVars, settings, loops, engine,
                   index, answered, assessed>>

\* lifespan with its two Thread(...).start() in a place that is reached
\* again once the application serves.
LifespanStartRepeated ==
    /\ app \in {"tables", "serving"}
    /\ loops < 2
    /\ index' = [index EXCEPT !.seed = "pending"]
    /\ loops' = loops + 1
    /\ pc' = "start"
    /\ app' = "serving"
    /\ UNCHANGED <<fsVars, logVars, exc, pending, cur, enriched, wi, scans,
                   pass, lastLog, tailVars, storeVars, callVars, settings,
                   engine, answered, assessed>>

\* lifespan from rag_thread.start() to its yield: the rag-seed thread and
\* the pipeline thread are started, then the application serves.
LifespanStart ==
    /\ app = "tables"
    /\ index' = [index EXCEPT !.seed = "pending"]
    /\ loops' = loops + 1
    /\ pc' = "start"
    /\ app' = "serving"
    /\ UNCHANGED <<fsVars, logVars, exc, pending, cur, enriched, wi, scans,
                   pass, lastLog, tailVars, storeVars, callVars, settings,
                   engine, answered, assessed>>

\* The rag-seed thread: seed_knowledge_base() inside the try of _seed_rag.
\* The first index_document runs _init_clients; without a collection every
\* document is skipped; an upsert that raises ends the seeding after n
\* documents.
SeedKnowledgeBase ==
    /\ index.seed = "pending"
    /\ \E chroma, openai \in BOOLEAN, n \in 0..Len(Knowledge) :
          LET e == _init_clients(engine, chroma, openai)
          IN /\ engine' = e
             /\ index' = [count |-> IF e._collection THEN n ELSE index.count,
                          seed |-> "done"]
    /\ UNCHANGED <<fileSide, storeVars, callVars, settings, app, loops,
                   answered, assessed>>

\* ------------------------------------------------------------- Q&A request
\* ChatbotService.get_answer: rag_engine.query, which runs _init_clients
\* first; _log_query absorbs its own exception; the result is returned.
GetAnswer ==
    /\ app = "serving"
    /\ \E chroma, openai \in BOOLEAN, io \in IndexOutcomes, lo \in LlmOutcomes :
          LET e == _init_clients(engine, chroma, openai)
              r == query(e, settings.OPENAI_API_KEY, index.count, io, lo)
          IN /\ engine' = e
             /\ answered' = [asked |-> Asked(e, settings.OPENAI_API_KEY, io, lo),
                             exc |-> r.exc, result |-> r.result]
    /\ UNCHANGED <<fileSide, storeVars, callVars, settings, app, loops, index,
                   assessed>>

\* ----------------------------------------------------------------- GET /risk
\* get_risk: the co2_ppm of the latest committed event, or a random reading
\* when the table is empty.
GetRisk ==
    /\ app = "serving"
    /\ \E co2 \in (IF events = <<>> THEN DemoRisk
                   ELSE {r.co2_ppm : r \in LatestRows(events)}) :
          assessed' = get_risk(co2)
    /\ UNCHANGED <<fileSide, storeVars, callVars, settings, app, loops, engine,
                   index, answered>>

PipelineNext(maxScans) ==
    \/ PipelineStart
    \/ PipelineScan(maxScans)
    \/ PipelineProcess
    \/ PipelineWrite
    \/ PipelineWriteFails
    \/ PipelineRemove
    \/ PipelineSleep

EnvNext(maxDrops) ==
    \/ \E f \in Files, s \in Shapes : Drop(f, s, maxDrops)
    \/ \E f \in Files : EnvRemove(f, maxDrops)

TailNext == TailCycle \/ TailSleep

StoreNext(maxRequests) ==
    \/ \E co2 \in ApiCo2 : ReqReject(co2, maxRequests)
    \/ \E co2 \in ApiCo2, ts \in ApiTimestamps : ReqBegin(co2, ts, maxRequests)
    \/ ReqEvaluate
    \/ ReqCommit
    \/ ReqFinish
    \/ ReqEnd

\* The whole system.
Next ==
    \/ PipelineNext(SysScans)
    \/ EnvNext(SysDrops)
    \/ TailNext
    \/ StoreNext(SysRequests)

Spec == Init /\ [][Next]_vars

\* The pipeline loop and the producers alone.
NextPipeline == PipelineNext(MaxScans) \/ EnvNext(MaxDrops)

SpecPipeline == Init /\ [][NextPipeline]_vars

\* The store side alone: ingestion requests.
NextStore == StoreNext(MaxRequests)

SpecStore == Init /\ [][NextStore]_vars

\* The live tail next to the pipeline, with the writes to the log reaching the
\* file part by part, the permissions of the log changing and the consumer
\* disconnecting.  The event loop
\* resumes the generator after its sleep and runs its next cycle.
NextTail ==
    \/ PipelineNext(TailScans)
    \/ \E f \in Files, s \in Shapes : Drop(f, s, TailDrops)
    \/ TailNext
    \/ PipelineFlush
    \/ TailDisconnect
    \/ \E a \in LogAccess : EnvAccess(a)

SpecTail ==
    /\ Init
    /\ [][NextTail]_vars
    /\ WF_vars(TailSleep)
    /\ WF_vars(TailCycle)

\* The store when it already holds a page of readings, each committed by an
\* earlier request together with its alerts.
Backlog == [i \in 1..DefaultLimit |-> [NewEvent(420, 3) EXCEPT !.id = i]]

RECURSIVE AlertsFor(_)
AlertsFor(rows) ==
    IF rows = <<>> THEN <<>>
    ELSE evaluate(Head(rows)) \o AlertsFor(Tail(rows))

InitReadings ==
    /\ InitApp(Settings)
    /\ InitFiles
    /\ InitStore(Backlog, AlertsFor(Backlog))
    /\ raw = NoValue
    /\ out = <<>>

NextReadings == StoreNext(MaxPosts) \/ ListEvents

SpecReadings == InitReadings /\ [][NextReadings]_vars

\* enrich_event applied to each reading, and again to its own result.
InitExtractor ==
    /\ InitApp(Settings)
    /\ InitFiles
    /\ InitStore(<<>>, <<>>)
    /\ raw \in Readings
    /\ out = <<>>

NextExtractor == CallEnrich \/ CallEnrichAgain

SpecExtractor == InitExtractor /\ [][NextExtractor]_vars

\* The pipeline loop and the producers, which place batch files under new
\* names and under names in use.  The thread of the loop is scheduled as
\* long as it has a step to take, and goes on scanning the directory while
\* it is empty.
NextProgress ==
    \/ PipelineNext(ProgressScans)
    \/ PipelineIdleScan
    \/ \E f \in Files, s \in Shapes : Drop(f, s, ProgressDrops)
    \/ \E f \in Files, s \in Shapes : Replace(f, s, ProgressDrops)

SpecProgress ==
    /\ Init
    /\ [][NextProgress]_vars
    /\ WF_vars(PipelineNext(ProgressScans) \/ PipelineIdleScan)

\* The application from the start of lifespan on: the pipeline thread, a
\* producer, the live tail and the ingestion requests.
InitStartup ==
    /\ settings = Settings
    /\ app = "starting"
    /\ loops = 0
    /\ engine = RAGEngine
    /\ index = NoIndex
    /\ answered = NoAnswer
    /\ assessed = NoAssessment
    /\ InitFilesAt("unstarted")
    /\ InitStore(<<>>, <<>>)
    /\ raw = NoValue
    /\ out = <<>>

NextStartup ==
    \/ LifespanInitDb
    \/ LifespanStart
    \/ PipelineNext(TailScans)
    \/ \E f \in Files, s \in Shapes : Drop(f, s, TailDrops)
    \/ TailNext
    \/ StoreNext(SysRequests)

SpecStartup == InitStartup /\ [][NextStartup]_vars

\* The application started in each environment: ingestion requests and the
\* risk endpoint.
InitConfig ==
    /\ \E i \in 1..Len(Environments) : InitApp(Configure(Environments[i]))
    /\ InitFiles
    /\ InitStore(<<>>, <<>>)
    /\ raw = NoValue
    /\ out = <<>>

NextConfig == StoreNext(SysRequests) \/ GetRisk

SpecConfig == InitConfig /\ [][NextConfig]_vars

\* The Q&A requests next to the rag-seed thread, in each environment.
NextAnswers == SeedKnowledgeBase \/ GetAnswer

SpecAnswers == InitConfig /\ [][NextAnswers]_vars

\* The risk endpoint next to the ingestion requests, default configuration.
NextRisk == StoreNext(MaxRequests) \/ GetRisk

SpecRisk == Init /\ [][NextRisk]_vars

\* ================================================================ claims
\* A step of run_pipeline (the other components leave pc alone).
ProcessStep == pc = "process" /\ pc' # "process"
RemoveStep == pc = "remove" /\ pc' # "remove"

\* The exceptions enrich_event can raise on a line that json.loads accepted.
LineErrors == {"AttributeError", "ValueError", "TypeError"}

\* The lines of a batch file that are valid records: a JSON object with a
\* numeric co2_ppm.
IsValidRecord(line) == line.kind = "object" /\ line.co2.type = "number"
ValidRecords(lines) == SelectSeq(lines, IsValidRecord)

\* C1: process_file on an existing, readable batch file never raises because
\* of a line, and returns exactly one enriched record per valid line (a JSON
\* object with numeric co2_ppm), in order; every other line is skipped.
C1_BatchIsolatesBadLines ==
    [][(ProcessStep /\ dir[cur] # 0 /\ exc' # "OSError") =>
          LET valid == ValidRecords(FileLines(cur, dir[cur]))
          IN /\ pc' # "dead"
             /\ exc' \notin LineErrors
             /\ Len(enriched') = Len(valid)
             /\ \A i \in 1..Len(valid) :
                   /\ enriched'[i].timestamp = valid[i].timestamp
                   /\ enriched'[i].severity
                         = classify_severity(valid[i].co2.v)]_vars

\* C2: run_pipeline, once started, never terminates on a per-file error: the
\* only exception that ends it is a setup error at startup.
C2_LoopNeverTerminates == pc = "dead" => exc = "setup"

\* C3: the lines of the log are in processing order: passes do not interleave
\* and are in the order they were made, and the records of one pass are in
\* the line order of their batch file.
C3_OrderPreserved ==
    /\ Len(logPass) = Len(log)
    /\ \A i, j \in 1..Len(log) :
          i < j =>
             /\ logPass[i] <= logPass[j]
             /\ logPass[i] = logPass[j] =>
                   /\ log[i].rec.source = log[j].rec.source
                   /\ log[i].rec.timestamp < log[j].rec.timestamp

\* Two batch files were processed one after the other, the first with two
\* records.
C3_Witness ==
    /\ Len(log) >= 3
    /\ logPass[1] = logPass[2]
    /\ logPass[2] < logPass[3]
    /\ log[2].rec.source # log[3].rec.source

\* C4: every step of every component leaves the old log a prefix of the new.
C4_AppendOnly == [][IsPrefix(log, log')]_vars

\* The pipeline has appended twice while the live tail has pushed a message
\* and an ingestion request has committed.
C4_Witness == Len(log) >= 2 /\ emitted # <<>> /\ events # <<>>

\* The run of enriched that write_output has appended is at the end of log.
AppendCompleted ==
    /\ wi = Len(enriched)
    /\ Len(log) >= Len(enriched)
    /\ \A i \in 1..Len(enriched) :
          log[Len(log) - Len(enriched) + i] = JsonDumps(enriched[i])

\* os.remove deleted the file of this pass.
RemovedStep == RemoveStep /\ dir[cur] # 0 /\ dir'[cur] = 0

\* C5 as claimed: a batch file is deleted by the loop only after an append of
\* its records to the log has completed.
C5_DeletedOnlyAfterAppend ==
    [][RemovedStep => (enriched # <<>> /\ AppendCompleted)]_vars

\* C5 as amended: a batch file is deleted by the loop only after every record
\* process_file returned for it has been appended to the log; when it
\* returned none, the file is deleted without any append.
C5_DeletedAfterItsRecordsAppended ==
    [][RemovedStep => AppendCompleted]_vars

\* A file was dropped once, nobody else deleted it, its records are in the
\* log and the loop has deleted it.
C5_Witness ==
    /\ drops = 1
    /\ Present = {}
    /\ log # <<>>
    /\ pc \in {"sleep", "scan"}

\* The files a scan handed to the for loop.
Discovered ==
    (IF cur = NoFile THEN {} ELSE {cur})
        \cup {pending[i] : i \in 1..Len(pending)}

\* C6: a failing os.remove (logged as "Could not remove processed file")
\* leaves the directory and the log as they are and the loop alive, which
\* goes on with the next file of the scan if there is one; and every scan
\* discovers every file still in the directory, so the file is processed
\* again.
C6_RemoveFailureNonFatal ==
    [][/\ (RemoveStep /\ lastLog' = LogNotRemoved) =>
             /\ dir' = dir
             /\ log' = log
             /\ exc' = "none"
             /\ IF pending = <<>>
                THEN pc' = "sleep"
                ELSE pc' = "process" /\ cur' = Head(pending)
                        /\ pending' = Tail(pending)
       /\ (pc = "scan" /\ pc' # "scan") => Discovered' = Present]_vars

\* A file dropped once, whose deletion failed, was processed again: its first
\* record is in the log twice, written by two passes, and it is still there.
C6_Witness ==
    /\ drops = 1
    /\ \E f \in Present :
          \E i, j \in 1..Len(log) :
             /\ i < j
             /\ logPass[i] < logPass[j]
             /\ log[i] = log[j]
             /\ log[i].rec.source = f

\* C7: process_file on a path that does not exist returns an empty list and
\* raises nothing, and the loop goes to os.remove without calling
\* write_output: the log is unchanged.
C7_MissingFileYieldsNothing ==
    [][(ProcessStep /\ dir[cur] = 0) =>
          /\ pc' = "remove"
          /\ exc' = "none"
          /\ enriched' = <<>>
          /\ log' = log]_vars

\* process_file has just reported a path that does not exist.
C7_Witness ==
    /\ pc = "remove"
    /\ lastLog = LogNotFound
    /\ dir[cur] = 0
    /\ enriched = <<>>

\* The alerts of alert list as that have the given type.
OfType(as, t) == SelectSeq(as, LAMBDA a : a.alert_type = t)

\* What C8 says of the alerts as created for event e.
FanOut(e, as) ==
    /\ Len(OfType(as, "HIGH_CO2")) =
          (IF classify_severity(e.co2_ppm) \in {"danger", "critical"}
           THEN 1 ELSE 0)
    /\ Len(OfType(as, "CRITICAL_RISK")) =
          (IF e.risk_score >= CriticalRisk THEN 1 ELSE 0)
    /\ Len(as) = Len(OfType(as, "HIGH_CO2")) + Len(OfType(as, "CRITICAL_RISK"))
    /\ \A i \in 1..Len(as) :
          /\ as[i].event_id = e.id
          /\ as[i].alert_type = "CRITICAL_RISK" => as[i].severity = "critical"
    /\ e.co2_ppm = 550 =>
          /\ Len(as) = 2
          /\ OfType(as, "HIGH_CO2")[1].severity = "critical"
    /\ e.co2_ppm = 200 => as = <<>>

\* The committed alerts linked to event id.
AlertsOf(id) == SelectSeq(alerts, LAMBDA a : a.event_id = id)

\* C8: the alerts evaluate created for the event of the request, and the
\* alerts stored for every persisted event, are one HIGH_CO2 alert iff the
\* severity is danger or critical and one CRITICAL_RISK alert (critical) iff
\* risk_score >= 0.9; 550 ppm gives both, 200 ppm none.
C8_AlertFanOut ==
    /\ req.pc \in {"evaluated", "committed", "done"} =>
          FanOut(req.event, req.alerts)
    /\ \A i \in 1..Len(events) : FanOut(events[i], AlertsOf(events[i].id))

\* An event of 550 ppm is persisted with its two alerts and one of 200 ppm
\* with none.
C8_Witness ==
    /\ \E i \in 1..Len(events) :
          events[i].co2_ppm = 550 /\ Len(AlertsOf(events[i].id)) = 2
    /\ \E i \in 1..Len(events) :
          events[i].co2_ppm = 200 /\ AlertsOf(events[i].id) = <<>>

\* C9: the committed store holds an event together with every alert
\* evaluated for it, or neither: each committed event has exactly the alerts
\* of evaluate, and each committed alert has its event.
C9_EventAndAlertsAtomic ==
    /\ \A i \in 1..Len(events) :
          AlertsOf(events[i].id) = evaluate(events[i])
    /\ \A k \in 1..Len(alerts) :
          \E i \in 1..Len(events) : events[i].id = alerts[k].event_id

\* A request whose event was flushed and has alerts to raise ended in an
\* error before its commit, next to an earlier request that committed.
C9_Witness ==
    /\ req.pc = "error"
    /\ req.event.id # 0
    /\ evaluate(req.event) # <<>>
    /\ events # <<>>
    /\ \A i \in 1..Len(events) : events[i].id # req.event.id

\* C10: a request that ends in an error has committed none of its writes.
C10_FailedRequestCommitsNothing ==
    req.pc = "error" =>
       /\ \A i \in 1..Len(events) : events[i].id # req.event.id
       /\ \A k \in 1..Len(alerts) : alerts[k].event_id # req.event.id

\* C11: every alert, the ones evaluate created for the request and the ones
\* stored, carries the severity classify_severity assigns to the reading of
\* its event.
C11_SeverityAgrees ==
    /\ \A k \in 1..Len(req.alerts) :
          req.alerts[k].severity = classify_severity(req.event.co2_ppm)
    /\ \A i \in 1..Len(events) :
          \A k \in 1..Len(alerts) :
             alerts[k].event_id = events[i].id =>
                alerts[k].severity = classify_severity(events[i].co2_ppm)

\* A message of the push channel that carries an error field.
IsError(m) == "error" \in DOMAIN m

\* A step of _live_event_generator that leaves the try statement while the
\* consumer is still there.
CycleStep == tpc = "run" /\ tpc' # "run" /\ connected'

\* C12: the generator is closed only when the consumer has disconnected;
\* every cycle yields exactly one message, which carries an error field
\* exactly when stream_enriched_events raised, and goes to its sleep; the
\* sleep is followed by the next cycle only; and after an error message the
\* next cycle is reached unless the consumer disconnects.
C12_PushChannelSurvives ==
    /\ [](tpc = "closed" => ~connected)
    /\ [][CycleStep =>
             /\ tpc' = "sleep"
             /\ Len(emitted') = 1
             /\ IsError(emitted'[1]) <=> ~StreamRead(FileText, access, 1).ok]_vars
    /\ [][(tpc = "sleep" /\ tpc' # "sleep") => (tpc' = "run" \/ ~connected')]_vars
    /\ ((tpc = "sleep" /\ IsError(emitted[1])) ~> (tpc = "run" \/ ~connected))

\* After a cycle that yielded the error message the generator has slept and
\* is at its next cycle, the consumer still connected.
C12_Witness ==
    /\ tpc = "run"
    /\ connected
    /\ emitted = <<ErrorMessage("PermissionError")>>

\* The four labels of classify_severity, in order.
Labels == <<"safe", "warning", "danger", "critical">>
Rank(l) == CHOOSE i \in 1..Len(Labels) : Labels[i] = l

\* The log is missing or empty, unreadable, or holds no parseable record.
NoRecordAvailable ==
    \/ access # "ok"
    \/ stream_enriched_events(FileText, 1) = <<>>

\* A data message for a reading of the demo range with the extractor's
\* values.
WellFormedFallback(m) ==
    /\ ~IsError(m)
    /\ m.co2_ppm.v \in 310..520
    /\ \E i \in 1..Len(Labels) : m.severity = Labels[i]
    /\ m.risk_score = compute_risk_score(m.co2_ppm.v)
    /\ m.carbon_score = compute_carbon_score(m.co2_ppm.v)

\* C13: a cycle that finds the log missing, empty, unreadable or without a
\* parseable record yields exactly one well-formed synthetic message.
C13_FallbackWellFormed ==
    [][(CycleStep /\ NoRecordAvailable) =>
          /\ Len(emitted') = 1
          /\ WellFormedFallback(emitted'[1])]_vars

\* C14: with a truncated last line in the file stream_enriched_events returns
\* what it returns for the complete lines alone; a cycle of the generator
\* then yields the last complete record, or the synthetic reading when there
\* is none; and once the line is complete stream_enriched_events returns it.
C14_PartialLineTolerated ==
    /\ [](\A n \in 1..2 :
             stream_enriched_events(FileText, n) = stream_enriched_events(log, n))
    /\ [][(CycleStep /\ partial /\ access = "ok") =>
             /\ Len(emitted') = 1
             /\ IF log = <<>>
                THEN emitted'[1].source = "live-sensor"
                ELSE emitted'[1] = log[Len(log)].rec]_vars
    /\ [][(partial /\ ~partial') =>
             stream_enriched_events(FileText', 1) = <<enriched[wi + 1]>>]_vars

\* The second line of a batch is in the file in part, and the generator has
\* yielded the first and sleeps.
C14_Witness ==
    /\ partial
    /\ wi = 1
    /\ FileText # log
    /\ tpc = "sleep"
    /\ emitted = <<enriched[1]>>

\* The fields stream_events documents for every message.
MessageFields ==
    {"co2_ppm", "risk_score", "carbon_score", "severity", "timestamp", "source"}

\* C15: every message yielded that is not an error message has all six
\* fields.
C15_MessageHasAllFields ==
    \A i \in 1..Len(emitted) :
       ~IsError(emitted[i]) => MessageFields \subseteq DOMAIN emitted[i]

\* The reading enrich_event was called with has a number as co2_ppm.
HasNumber ==
    /\ raw.type = "object"
    /\ "co2_ppm" \in DOMAIN raw.obj
    /\ raw.obj.co2_ppm.type = "number"

\* C16: for a reading x >= 0 the severity is one of the four labels, the one
\* of the half-open interval x lies in (x < warning: safe; warning <= x <
\* danger: warning; danger <= x < 500: danger; x >= 500: critical), and no
\* smaller reading has a higher label.
C16_SeverityStepFunction ==
    (out # <<>> /\ HasNumber /\ raw.obj.co2_ppm.v >= 0) =>
       LET x == raw.obj.co2_ppm.v
           sev == out[1].rec.severity
       IN /\ out[1].ok
          /\ \E i \in 1..Len(Labels) : sev = Labels[i]
          /\ sev = "safe" <=> x < CO2_WARNING_THRESHOLD
          /\ sev = "warning" <=>
                (CO2_WARNING_THRESHOLD <= x /\ x < CO2_DANGER_THRESHOLD)
          /\ sev = "danger" <=> (CO2_DANGER_THRESHOLD <= x /\ x < CriticalCutIn)
          /\ sev = "critical" <=> x >= CriticalCutIn
          /\ \A y \in 0..x : Rank(classify_severity(y)) <= Rank(sev)

\* The reading that is exactly the warning threshold was classified.
C16_Witness ==
    /\ out # <<>>
    /\ HasNumber
    /\ raw.obj.co2_ppm.v = CO2_WARNING_THRESHOLD
    /\ out[1].rec.severity = "warning"

\* C17: for a reading x >= 0 the risk score is x / 500 up to the maximum and
\* the maximum above, lies in [0, RISK_SCORE_MAX], and no smaller reading has
\* a higher score.
C17_RiskScoreRange ==
    (out # <<>> /\ HasNumber /\ raw.obj.co2_ppm.v >= 0) =>
       LET x == raw.obj.co2_ppm.v
           risk == out[1].rec.risk_score
       IN /\ out[1].ok
          /\ risk >= 0
          /\ risk <= Thousandths(RISK_SCORE_MAX)
          /\ IF x <= RiskDivisor * RISK_SCORE_MAX
             THEN risk * RiskDivisor = Thousandths(x)
             ELSE risk = Thousandths(RISK_SCORE_MAX)
          /\ \A y \in 0..x : compute_risk_score(y) <= risk

\* A reading above 500 ppm was scored at the maximum.
C17_Witness ==
    /\ out # <<>>
    /\ HasNumber
    /\ raw.obj.co2_ppm.v > RiskDivisor * RISK_SCORE_MAX
    /\ out[1].rec.risk_score = Thousandths(RISK_SCORE_MAX)

\* C18: a call of enrich_event returns what any other call on the same
\* reading returns, and enrich_event on the record it returned returns that
\* record.
C18_EnrichIdempotent ==
    /\ out # <<>> => out[1] = enrich_event(raw)
    /\ Len(out) = 2 =>
          /\ out[2].ok
          /\ out[2].rec = out[1].rec
          /\ \A k \in EnrichedKeys : out[2].rec[k] = out[1].rec[k]

\* A reading above the carbon baseline was enriched twice.
C18_Witness ==
    /\ Len(out) = 2
    /\ out[1].rec.carbon_score > 0
    /\ out[1].rec.severity = "danger"

\* A record whose co2_ppm is a negative number.
IsNegative(rec) ==
    /\ "co2_ppm" \in DOMAIN rec
    /\ rec.co2_ppm.type = "number"
    /\ rec.co2_ppm.v < 0

\* C19: no reading with a negative co2_ppm is stored as an event, is a line
\* of the output log or is yielded to a subscriber.
C19_NegativeNeverEnters ==
    /\ \A i \in 1..Len(events) : events[i].co2_ppm >= 0
    /\ \A i \in 1..Len(log) : ~IsNegative(log[i].rec)
    /\ \A i \in 1..Len(emitted) :
          ~IsError(emitted[i]) => ~IsNegative(emitted[i])

\* C20: the reading a 201 response returns has an id no earlier row has, the
\* risk score min(co2_ppm / 500, 1.0), above 0 when co2_ppm is, and is in the
\* response of a GET /events with default parameters made after it.
C20_ReadYourWrite ==
    posted.status = 201 =>
       /\ posted.body.id > 0
       /\ posted.body.source = "s1"
       /\ posted.body.risk_score = compute_risk_score(posted.body.co2_ppm)
       /\ posted.body.co2_ppm > 0 => posted.body.risk_score > 0
       /\ listed.got =>
             \E i \in 1..Len(listed.rows) : listed.rows[i].id = posted.body.id

\* The answers of query that say the language model gave none.
Fallbacks == {Unavailable, QueryFailed}

\* C21: whatever the vector index and the language model do (not available
\* when the clients are made, an error on the query, an error or no content
\* on the completion, no API key), the query raises nothing and returns
\* answer, sources and latency_ms; the answer is the content of the
\* completion when there is one and a fallback text otherwise, and the
\* sources are empty unless the index returned results.
C21_CollaboratorFailuresAbsorbed ==
    answered # NoAnswer =>
       /\ answered.exc = "none"
       /\ DOMAIN answered.result = {"answer", "sources", "latency_ms"}
       /\ IF answered.asked.llm = "content"
          THEN answered.result.answer = Completion
          ELSE answered.result.answer \in Fallbacks
       /\ answered.asked.index # "results" => answered.result.sources = <<>>

\* Both collaborators raised during a query and the answer is the text of
\* the except clause, without sources.
C21_Witness ==
    /\ answered.asked = [index |-> "error", llm |-> "error"]
    /\ answered.exc = "none"
    /\ answered.result.answer = QueryFailed
    /\ answered.result.sources = <<>>

\* C22: when the pipeline directories or the database tables cannot be
\* created the application does not reach the state in which it serves
\* requests, and a failed startup stays failed.
C22_FatalSetupAbortsStartup ==
    /\ [](exc = "setup" => app # "serving")
    /\ [][app = "failed" => app' = "failed"]_vars

\* Steps of the live tail and of the ingestion requests.
TailStep == tpc' # tpc \/ emitted' # emitted
RequestStep ==
    req' # req \/ nreq' # nreq \/ posted' # posted \/ listed' # listed

\* C23: at most one thread runs run_pipeline, and there is exactly one while
\* the application serves: it is started when lifespan reaches its yield
\* and at no other step; only a step of write_output changes the output log;
\* the steps of the live tail and of the request handlers leave the output
\* log and the input directory as they are.
C23_SingleWriter ==
    /\ [](loops <= 1 /\ (app = "serving" <=> loops = 1))
    /\ [][loops' # loops => (app = "tables" /\ app' = "serving")]_vars
    /\ [][(log' # log \/ partial' # partial) => pc = "write"]_vars
    /\ [][(TailStep \/ RequestStep) => UNCHANGED <<dir, log, partial>>]_vars

\* The one pipeline thread has written two lines while the live tail pushed
\* a record of the log and an ingestion request was answered.
C23_Witness ==
    /\ loops = 1
    /\ Len(log) >= 2
    /\ Len(emitted) = 1
    /\ posted.status = 201
    /\ emitted[1] = log[1].rec

\* The classifier or the alert evaluator has run under the settings.
ThresholdsUsed ==
    \/ req.pc \in {"evaluated", "committed", "done"}
    \/ assessed.status = 200

\* C24: the settings the classifier and the alert evaluator run under have
\* warning threshold < danger threshold < critical threshold.
C24_ThresholdsOrdered ==
    ThresholdsUsed =>
       /\ settings.CO2_WARNING_THRESHOLD < settings.CO2_DANGER_THRESHOLD
       /\ settings.CO2_DANGER_THRESHOLD < settings.CO2_CRITICAL_THRESHOLD

\* C25: every GET /risk is answered 200 with a risk_score in [0, 1] and one
\* of the four labels as risk_level, both the ones the extractor gives for
\* the co2_ppm of the response; that co2_ppm is the one of a latest event,
\* or lies in the demo range when there is no event.
C25_RiskAlwaysValid ==
    /\ [](assessed # NoAssessment =>
             /\ assessed.status = 200
             /\ assessed.risk_score >= 0
             /\ assessed.risk_score <= Thousandths(1)
             /\ \E i \in 1..Len(Labels) : assessed.risk_level = Labels[i]
             /\ assessed.risk_score = compute_risk_score(assessed.co2_ppm)
             /\ assessed.risk_level = classify_severity(assessed.co2_ppm))
    /\ [][assessed' # assessed =>
             IF events = <<>>
             THEN assessed'.co2_ppm \in 310..480
             ELSE \E r \in LatestRows(events) :
                     assessed'.co2_ppm = r.co2_ppm]_vars

\* The risk of a latest event of 550 ppm was assessed: the maximum,
\* critical.
C25_Witness ==
    /\ events # <<>>
    /\ assessed.status = 200
    /\ assessed.co2_ppm = 550
    /\ assessed.risk_score = Thousandths(1)
    /\ assessed.risk_level = "critical"

\* What C26 says of alert a raised for event e.
RaisedFor(a, e) ==
    /\ a.event_id = e.id
    /\ e.id > 0
    /\ \E j \in 1..Len(evaluate(e)) : evaluate(e)[j] = a
    /\ a.alert_type \in {"HIGH_CO2", "CRITICAL_RISK"}
    /\ a.severity \in {"warning", "critical"}
    /\ a.resolved = FALSE

\* C26: every stored alert, and every alert of the session of the request,
\* is one evaluate created for the event whose id it carries, a stored alert
\* for a stored event; its type is HIGH_CO2 or CRITICAL_RISK, its severity
\* warning or critical, resolved is false; and no step changes or removes a
\* stored alert.
C26_AlertsImmutable ==
    /\ [](/\ \A k \in 1..Len(alerts) :
                \E i \in 1..Len(events) : RaisedFor(alerts[k], events[i])
          /\ \A k \in 1..Len(req.alerts) : RaisedFor(req.alerts[k], req.event))
    /\ [][IsPrefix(alerts, alerts')]_vars

\* Two events are stored, the first with an alert and the second with two.
C26_Witness ==
    /\ Len(events) = 2
    /\ Len(alerts) = 3
    /\ alerts[1].event_id = events[1].id
    /\ alerts[3].event_id = events[2].id
    /\ alerts[1].severity = "warning"

\* C27: the risk level of a response is critical exactly when its co2_ppm is
\* at least the CO2_CRITICAL_THRESHOLD of the settings.
C27_CriticalAtConfiguredThreshold ==
    assessed.status = 200 =>
       (assessed.risk_level = "critical"
           <=> assessed.co2_ppm >= settings.CO2_CRITICAL_THRESHOLD)

\* What C28 says of the alerts as created for event e.
RiskNeverAlone(e, as) ==
    /\ e.risk_score >= CriticalRisk =>
          /\ e.co2_ppm >= 450
          /\ classify_severity(e.co2_ppm) \in {"danger", "critical"}
    /\ OfType(as, "CRITICAL_RISK") # <<>> => OfType(as, "HIGH_CO2") # <<>>
    /\ Len(as) = 1 => as[1].alert_type = "HIGH_CO2"

\* C28: under the default settings, for the event of the request and for
\* every stored event: a risk_score of at least 0.9 comes with a co2_ppm of
\* at least 450 and a severity of danger or critical, a CRITICAL_RISK alert
\* comes with a HIGH_CO2 alert of the same event, and a single alert is a
\* HIGH_CO2 alert.
C28_CriticalRiskNeverAlone ==
    /\ req.pc \in {"evaluated", "committed", "done"} =>
          RiskNeverAlone(req.event, req.alerts)
    /\ \A i \in 1..Len(events) :
          RiskNeverAlone(events[i], AlertsOf(events[i].id))

\* An event of 449 ppm is stored with its HIGH_CO2 alert alone and one of
\* 450 ppm with both alerts.
C28_Witness ==
    /\ \E i \in 1..Len(events) :
          /\ events[i].co2_ppm = 449
          /\ Len(AlertsOf(events[i].id)) = 1
    /\ \E i \in 1..Len(events) :
          /\ events[i].co2_ppm = 450
          /\ events[i].risk_score = CriticalRisk
          /\ Len(AlertsOf(events[i].id)) = 2

\* The last parseable record of the text a reader finds in the log.
LastRecord == ParsedLines(FileText)[Len(ParsedLines(FileText))]

\* C29 as claimed: a cycle that finds a parseable record in the log yields
\* exactly the last one of them.
C29_EmitsLastRecord ==
    [][(CycleStep /\ ParsedLines(FileText) # <<>>) =>
          emitted' = <<LastRecord>>]_vars

\* C29 as amended: a cycle that can read the log and finds a parseable
\* record in it yields exactly the last one of them as the log is then,
\* whatever it yielded before; every other cycle yields a synthetic reading
\* or an error message, so that a record is yielded only by a cycle that
\* finds it last.
C29_EmitsLastReadableRecord ==
    [][CycleStep =>
          /\ Len(emitted') = 1
          /\ IF access = "ok" /\ ParsedLines(FileText) # <<>>
             THEN emitted'[1] = LastRecord
             ELSE \/ IsError(emitted'[1])
                  \/ emitted'[1].source = "live-sensor"]_vars

\* The log holds two records, the loop has removed their file, and the
\* generator, which yielded the second, sleeps.
C29_Witness ==
    /\ Len(log) = 2
    /\ Present = {}
    /\ access = "ok"
    /\ tpc = "sleep"
    /\ emitted = <<log[2].rec>>

\* The loop has ended, or an os.remove has just failed.
Faulted == pc = "dead" \/ lastLog = LogNotRemoved

\* The records pass p appended to the log, in order.
PassRecords(p) ==
    LET idx == SelectSeq([i \in 1..Len(log) |-> i], LAMBDA i : logPass[i] = p)
    IN [k \in 1..Len(idx) |-> log[idx[k]].rec]

\* One pass has appended exactly the records of file f holding shape s (no
\* pass has to when it holds none).
Processed(f, s) ==
    \/ process_file(f, s, FALSE).recs = <<>>
    \/ \E p \in 1..pass : PassRecords(p) = process_file(f, s, FALSE).recs

\* C30: a batch file that is in the input directory while a scan is still to
\* come is, unless the loop ends, an os.remove fails or a producer puts
\* another file in its place first, processed and removed: one pass appends
\* exactly its records, each once; the loop removes a file only when every
\* record of the pass is in the log once; and a scan hands to the loop only
\* files that are in the directory.
C30_PipelineProgress ==
    /\ \A f \in Files, s \in Shapes :
          (dir[f] = s /\ scans < ProgressScans)
             ~> \/ Faulted
                \/ dir[f] \notin {0, s}
                \/ dir[f] = 0 /\ Processed(f, s)
    /\ [][RemovedStep =>
             /\ AppendCompleted
             /\ PassRecords(pass) = enriched]_vars
    /\ [][(pc = "scan" /\ pc' # "scan") => Discovered' \subseteq Present]_vars

====
